---- MODULE Spec2Model ----
(***************************************************************************)
(* Model of the synthetic e-commerce log generator, src/app.py:            *)
(* class EcommerceApp (user and product pools, simulated clock, in-memory  *)
(* log buffer, event emitters, simulate_user_journey, save_logs) and the   *)
(* __main__ run over 24 hours.                                             *)
(*                                                                         *)
(* Time is counted in ticks since midnight of the day the program starts   *)
(* (TicksPerSec ticks per second).  Money is counted in mills (1/1000 of   *)
(* the currency unit), so that round(x, 2) is a real operation.  A         *)
(* load_factor is a pair <<num, den>> standing for the float num/den.      *)
(*                                                                         *)
(* Python's random module is a deterministic generator whose seed is the   *)
(* only free input: rng is the generator's state, every draw reads it and  *)
(* steps it, and Init chooses the seed.  Entries keep the fields the       *)
(* program copies from the user and the payload; session_id, ip_address    *)
(* and user_agent (fresh random values, read by nothing) are left out, but *)
(* the draws log_event makes for them are consumed.                        *)
(***************************************************************************)
EXTENDS Integers, Sequences, FiniteSets, TLC

\* ---------------------------------------------------------------- bounds
PrngMod == 4        \* the generator's raw values are 0..PrngMod-1
NumUsers == 2       \* size of the user pool (the program builds 100)
NumProducts == 3    \* size of the product pool (the program builds 50)
MaxCalls == 2       \* calls of simulate_user_journey made by an API client
FaultWindow == 2    \* iterations of a journey in which an emitter may raise
TicksPerSec == 2    \* resolution of the simulated clock

\* ------------------------------------------------------ program constants
RandLo == 5                 \* random.randint(5,15)
RandHi == 15
AdvLo == 30                 \* random.uniform(30,120), seconds
AdvHi == 120
HoursPerDay == 24           \* range(24)
JourneysPerHour == 5        \* range(5)
MaxItems == 3               \* random.randint(1,3)
MaxQuantity == 5            \* random.randint(1,5)
LogEventDraws == 5          \* generate_ip: 4 randint, generate_user_agent: 1 choice

TicksPerHour == 3600 * TicksPerSec

VARIABLES
    logs,           \* self.logs: the buffer, a sequence of entries
    users,          \* self.users
    products,       \* self.products
    current_time,   \* self.current_time
    rng,            \* state of the random module's generator
    file,           \* content of the output file; <<>> with written = 0 when absent
    written,        \* number of times the output file has been written
    pc,             \* position of the single thread
    hour, jn,       \* __main__: loop variable hour, journeys started in this hour
    calls,          \* API client: calls of simulate_user_journey made so far
    load, user, actions, count, i,      \* locals of simulate_user_journey
    faulty,         \* iterations of a journey whose emitter raises (environment)
    base, draw, incs,   \* history: buffer length at the call, the randint draw, the clock increments
    arg_start, clock0   \* history: the call's start_time, the clock when the call was made

vars == <<logs, users, products, current_time, rng, file, written, pc, hour, jn,
          calls, load, user, actions, count, i, faulty, base, draw, incs,
          arg_start, clock0>>

\* ------------------------------------------------------------ random module
Raw(r, k) == (r.s + k * r.inc) % PrngMod
Skip(r, k) == [r EXCEPT !.s = Raw(r, k)]
\* a raw value scaled onto 0..n-1, both ends included
Scale(raw, n) == (raw * (n - 1)) \div (PrngMod - 1)
RandInt(r, lo, hi) == lo + Scale(Raw(r, 0), hi - lo + 1)
Choice(r, seq) == seq[1 + Scale(Raw(r, 0), Len(seq))]
Uniform(r, lo, hi) == lo + Scale(Raw(r, 0), hi - lo + 1)

RemoveAt(seq, k) == [n \in 1..(Len(seq) - 1) |-> IF n < k THEN seq[n] ELSE seq[n + 1]]

\* a slip: sampling with replacement, as random.choices would
RECURSIVE SampleWithReplacement(_, _, _)
SampleWithReplacement(r, pool, k) ==
    IF k = 0 THEN <<>>
    ELSE LET idx == 1 + Scale(Raw(r, 0), Len(pool))
         IN  <<pool[idx]>> \o SampleWithReplacement(Skip(r, 1), pool, k - 1)

\* random.sample(pool, k): k elements of pool, without replacement, in selection order
RECURSIVE Sample(_, _, _)
Sample(r, pool, k) ==
    IF k = 0 THEN <<>>
    ELSE LET idx == 1 + Scale(Raw(r, 0), Len(pool))
         IN  <<pool[idx]>> \o Sample(Skip(r, 1), RemoveAt(pool, idx), k - 1)

\* ---------------------------------------------------------------- helpers
Hour(t) == (t \div TicksPerHour) % HoursPerDay

\* round(x, 2) on an amount in mills: to the nearest cent, ties to even
Round2(x) ==
    LET q == x \div 10
        rem == x % 10
    IN  IF rem < 5 THEN 10 * q
        ELSE IF rem > 5 THEN 10 * (q + 1)
        ELSE IF q % 2 = 0 THEN 10 * q ELSE 10 * (q + 1)

RECURSIVE SumPrices(_)
SumPrices(items) ==
    IF items = <<>> THEN 0 ELSE items[1].price + SumPrices(Tail(items))

RECURSIVE SumSeq(_)
SumSeq(s) == IF s = <<>> THEN 0 ELSE s[1] + SumSeq(Tail(s))

\* ------------------------------------------------------------- generators
Locations == <<"FR", "US", "JP">>
Devices == <<"desktop", "mobile", "tablet">>

\* random.choices(devices, weights=[0.5,0.4,0.1])[0]
WeightedDevice(r) ==
    LET x == Scale(Raw(r, 0), 10)
    IN  IF x < 5 THEN Devices[1] ELSE IF x < 9 THEN Devices[2] ELSE Devices[3]

generate_users(r, n) ==
    [k \in 1..n |->
        [user_id |-> k,
         geo |-> Choice(Skip(r, 2 * (k - 1)), Locations),
         device_type |-> WeightedDevice(Skip(r, 2 * (k - 1) + 1))]]

\* random.uniform(10,500) in mills, before rounding
RawPrices == <<12504, 99986, 10000, 33335, 250005, 500000>>

generate_products(r, n) ==
    [k \in 1..n |->
        [product_id |-> k,
         price |-> Round2(Choice(Skip(r, k - 1), RawPrices))]]

\* ------------------------------------------------------------ action mix
Rep(x, n) == [k \in 1..n |-> x]

\* a slip: the evening band closed at 22 instead of half-open
time_based_actions_closed(t) ==
    LET h == Hour(t)
    IN  IF 6 <= h /\ h < 12
          THEN Rep("search", 4) \o Rep("page_view", 3) \o <<"product_view">>
        ELSE IF 12 <= h /\ h < 18
          THEN Rep("page_view", 3) \o Rep("product_view", 3) \o Rep("add_to_cart", 2)
        ELSE IF 18 <= h /\ h <= 22
          THEN Rep("product_view", 2) \o Rep("add_to_cart", 3) \o Rep("purchase", 2)
        ELSE Rep("error", 2) \o <<"search">> \o <<"logout">>

\* a slip: logout offered in the afternoon mix as well
time_based_actions_logout(t) ==
    LET h == Hour(t)
    IN  IF 6 <= h /\ h < 12
          THEN Rep("search", 4) \o Rep("page_view", 3) \o <<"product_view">>
        ELSE IF 12 <= h /\ h < 18
          THEN Rep("page_view", 3) \o Rep("product_view", 3) \o Rep("add_to_cart", 1)
               \o <<"logout">>
        ELSE IF 18 <= h /\ h < 22
          THEN Rep("product_view", 2) \o Rep("add_to_cart", 3) \o Rep("purchase", 2)
        ELSE Rep("error", 2) \o <<"search">> \o <<"logout">>

time_based_actions(t) ==
    LET h == Hour(t)
    IN  IF 6 <= h /\ h < 12
          THEN Rep("search", 4) \o Rep("page_view", 3) \o <<"product_view">>
        ELSE IF 12 <= h /\ h < 18
          THEN Rep("page_view", 3) \o Rep("product_view", 3) \o Rep("add_to_cart", 2)
        ELSE IF 18 <= h /\ h < 22
          THEN Rep("product_view", 2) \o Rep("add_to_cart", 3) \o Rep("purchase", 2)
        ELSE Rep("error", 2) \o <<"search">> \o <<"logout">>

\* ---------------------------------------------------------------- emitters
\* log_event, lines 20-30: the entry, stamped with the clock
Entry(t, event_type, u, payload) ==
    [timestamp |-> t,
     event_type |-> event_type,
     user_id |-> u.user_id,
     geo |-> u.geo,
     device_type |-> u.device_type,
     data |-> payload]

\* a slip: the entry inserted at the front of the buffer
log_event_prepends(buffer, t, event_type, u, payload) ==
    <<Entry(t, event_type, u, payload)>> \o buffer

\* log_event, line 31
log_event(buffer, t, event_type, u, payload) ==
    Append(buffer, Entry(t, event_type, u, payload))

Pages == <<"home", "category", "checkout">>
Queries == <<"laptop", "shoes", "watch", "phone", "headphones">>
Errs == <<[code |-> 500, msg |-> "Internal Server Error"],
          [code |-> 404, msg |-> "Not Found"],
          [code |-> 403, msg |-> "Forbidden"],
          [code |-> 502, msg |-> "Bad Gateway"]>>

SampleError == "Sample larger than population or is negative"
InjectedError == "emitter failed"

\* Each emitter: [raised, msg] when it raises, else [raised, data, used]:
\* the payload and the number of draws made before log_event.
page_view(u, r, prods) ==
    [raised |-> FALSE, used |-> 1,
     data |-> [user_id |-> u.user_id, page |-> Choice(r, Pages)]]

product_view(u, r, prods) ==
    LET p == Choice(r, prods)
    IN  [raised |-> FALSE, used |-> 1,
         data |-> [user_id |-> u.user_id, product_id |-> p.product_id, price |-> p.price]]

add_to_cart(u, r, prods) ==
    LET p == Choice(r, prods)
    IN  [raised |-> FALSE, used |-> 2,
         data |-> [user_id |-> u.user_id, product_id |-> p.product_id,
                   quantity |-> RandInt(Skip(r, 1), 1, MaxQuantity)]]

purchase(u, r, prods) ==
    LET k == RandInt(r, 1, MaxItems)
    IN  IF k > Len(prods)
          THEN [raised |-> TRUE, msg |-> SampleError]
          ELSE LET items == Sample(Skip(r, 1), prods, k)
               IN  [raised |-> FALSE, used |-> 1 + k,
                    data |-> [user_id |-> u.user_id,
                              amount |-> Round2(SumPrices(items)),
                              items |-> [n \in 1..k |->
                                            [product_id |-> items[n].product_id,
                                             price |-> items[n].price]]]]

search(u, r, prods) ==
    [raised |-> FALSE, used |-> 1,
     data |-> [user_id |-> u.user_id, query |-> Choice(r, Queries)]]

login(u, r, prods) ==
    [raised |-> FALSE, used |-> 0, data |-> [user_id |-> u.user_id]]

logout(u, r, prods) ==
    [raised |-> FALSE, used |-> 0, data |-> [user_id |-> u.user_id]]

error(u, r, prods) ==
    LET e == Choice(r, Errs)
    IN  [raised |-> FALSE, used |-> 1,
         data |-> [user_id |-> u.user_id, error_code |-> e.code, error_message |-> e.msg]]

\* getattr(self, act)(user)
Dispatch(act, u, r, prods) ==
    CASE act = "page_view" -> page_view(u, r, prods)
      [] act = "product_view" -> product_view(u, r, prods)
      [] act = "add_to_cart" -> add_to_cart(u, r, prods)
      [] act = "purchase" -> purchase(u, r, prods)
      [] act = "search" -> search(u, r, prods)
      [] act = "login" -> login(u, r, prods)
      [] act = "logout" -> logout(u, r, prods)
      [] act = "error" -> error(u, r, prods)

\* ------------------------------------------------------------------- Init
\* datetime.now() at construction: two minutes before midnight
InitClocks == {23 * TicksPerHour + 58 * 60 * TicksPerSec}

\* the locals of simulate_user_journey before the first call
NoUser == [user_id |-> 0, geo |-> "", device_type |-> ""]

InitApp(seed, now, fl) ==
    /\ logs = <<>>
    /\ users = generate_users(seed, NumUsers)
    /\ products = generate_products(Skip(seed, 2 * NumUsers), NumProducts)
    /\ rng = Skip(seed, 2 * NumUsers + NumProducts)
    /\ current_time = now
    /\ file = <<>>
    /\ written = 0
    /\ pc = "idle"
    /\ hour = 0
    /\ jn = 0
    /\ calls = 0
    /\ load = <<1, 1>>
    /\ user = NoUser
    /\ actions = <<>>
    /\ count = 0
    /\ i = 0
    /\ faulty = fl
    /\ base = 0
    /\ draw = 0
    /\ incs = <<>>
    /\ arg_start = <<>>
    /\ clock0 = now

\* a seed: the first raw value and the increment; increment 0 gives the
\* constant streams (every draw lowest, ..., every draw highest), the other
\* two the rising and the falling stream
Seeds == [s : 0..(PrngMod - 1), inc : {0, 1, PrngMod - 1}]

\* the failures the environment injects: none, one at iteration n, or one at
\* each of the first FaultWindow iterations
FaultPlans == {{}} \cup {{n} : n \in 1..FaultWindow} \cup {1..FaultWindow}

Init ==
    \E seed \in Seeds, now \in InitClocks, fl \in FaultPlans :
        InitApp(seed, now, fl)

\* ------------------------------------------------- simulate_user_journey
\* a slip: start_time ignored, the clock carried over
BeginJourneyKeepsClock(lf, st) ==
    /\ current_time' = current_time
    /\ user' = Choice(rng, users)
    /\ rng' = Skip(rng, 1)
    /\ load' = lf
    /\ base' = Len(logs)
    /\ incs' = <<>>
    /\ arg_start' = st
    /\ clock0' = current_time
    /\ draw' = 0
    /\ count' = 0
    /\ i' = 0
    /\ actions' = <<>>
    /\ pc' = "login"
    /\ UNCHANGED <<logs, users, products, file, written, faulty>>

\* lines 126-128: the optional clock reset and the choice of the user
BeginJourney(lf, st) ==
    /\ current_time' = IF st = <<>> THEN current_time ELSE st[1]
    /\ user' = Choice(rng, users)
    /\ rng' = Skip(rng, 1)
    /\ load' = lf
    /\ base' = Len(logs)
    /\ incs' = <<>>
    /\ arg_start' = st
    /\ clock0' = current_time
    /\ draw' = 0
    /\ count' = 0
    /\ i' = 0
    /\ actions' = <<>>
    /\ pc' = "login"
    /\ UNCHANGED <<logs, users, products, file, written, faulty>>

\* line 129
Login ==
    /\ pc = "login"
    /\ logs' = log_event(logs, current_time, "login", user, login(user, rng, products).data)
    /\ rng' = Skip(rng, LogEventDraws)
    /\ pc' = "mix"
    /\ UNCHANGED <<users, products, current_time, file, written, hour, jn, calls,
                   load, user, actions, count, i, faulty, base, draw, incs, arg_start, clock0>>

\* a slip: the product rounded up instead of truncated
CountRoundsUp(d, lf) == (d * lf[1] + lf[2] - 1) \div lf[2]

\* int(d * load_factor)
Count(d, lf) == (d * lf[1]) \div lf[2]

\* lines 130-131
ComputeMix ==
    /\ pc = "mix"
    /\ actions' = time_based_actions(current_time)
    /\ draw' = RandInt(rng, RandLo, RandHi)
    /\ count' = Count(draw', load)
    /\ rng' = Skip(rng, 1)
    /\ i' = 0
    /\ pc' = "loop"
    /\ UNCHANGED <<logs, users, products, current_time, file, written, hour, jn,
                   calls, load, user, faulty, base, incs, arg_start, clock0>>

\* the outcome of the emitter called in iteration n (1-based)
Outcome(act, n) ==
    IF n \in faulty
      THEN [raised |-> TRUE, msg |-> InjectedError]
      ELSE Dispatch(act, user, Skip(rng, 1), products)

\* a slip: the handler swallows the failure and logs nothing
TryEmitSwallows(buffer, act, out) ==
    IF out.raised
      THEN buffer
      ELSE log_event(buffer, current_time, act, user, out.data)

\* a slip: the handler's event built without the user's fields
TryEmitAnonymous(buffer, act, out) ==
    IF out.raised
      THEN log_event(buffer, current_time, "error", NoUser,
                     [error_code |-> 0, error_message |-> out.msg])
      ELSE log_event(buffer, current_time, act, user, out.data)

\* lines 134-137: the emitter's log_event, or the handler's when the emitter raised
TryEmit(buffer, act, out) ==
    IF out.raised
      THEN log_event(buffer, current_time, "error", user,
                     [error_code |-> 0, error_message |-> out.msg])
      ELSE log_event(buffer, current_time, act, user, out.data)

\* lines 133-137
Emit ==
    /\ pc = "loop"
    /\ i < count
    /\ LET act == Choice(rng, actions)
           out == Outcome(act, i + 1)
       IN  /\ logs' = TryEmit(logs, act, out)
           /\ rng' = Skip(rng, 1 + (IF out.raised THEN 0 ELSE out.used) + LogEventDraws)
    /\ pc' = "advance"
    /\ UNCHANGED <<users, products, current_time, file, written, hour, jn, calls,
                   load, user, actions, count, i, faulty, base, draw, incs, arg_start, clock0>>

\* a slip: the increment multiplied by the load factor
AdvanceTicksMultiplies(u, lf) == (u * TicksPerSec * lf[1]) \div lf[2]

\* timedelta(seconds=uniform(30,120)/load_factor), in ticks
AdvanceTicks(u, lf) == (u * TicksPerSec * lf[2]) \div lf[1]

\* lines 138-139
Advance ==
    /\ pc = "advance"
    /\ LET adv == AdvanceTicks(Uniform(rng, AdvLo, AdvHi), load)
       IN  /\ current_time' = current_time + adv
           /\ incs' = Append(incs, adv)
    /\ rng' = Skip(rng, 1)
    /\ i' = i + 1
    /\ pc' = "loop"
    /\ UNCHANGED <<logs, users, products, file, written, hour, jn, calls,
                   load, user, actions, count, faulty, base, draw, arg_start, clock0>>

\* line 140, and the return to the caller
Logout ==
    /\ pc = "loop"
    /\ i >= count
    /\ logs' = log_event(logs, current_time, "logout", user, logout(user, rng, products).data)
    /\ rng' = Skip(rng, LogEventDraws)
    /\ pc' = "idle"
    /\ UNCHANGED <<users, products, current_time, file, written, hour, jn, calls,
                   load, user, actions, count, i, faulty, base, draw, incs, arg_start, clock0>>

Journey == Login \/ ComputeMix \/ Emit \/ Advance \/ Logout

\* -------------------------------------------------------------- API client
LoadFactors == {<<1, 2>>, <<1, 1>>, <<2, 1>>}
StartHours == {19}
\* start_time: <<>> for None, <<t>> for a datetime
StartTimes == {<<>>} \cup {<<h * TicksPerHour>> : h \in StartHours}

Call ==
    /\ pc = "idle"
    /\ calls < MaxCalls
    /\ \E lf \in LoadFactors, st \in StartTimes : BeginJourney(lf, st)
    /\ calls' = calls + 1
    /\ UNCHANGED <<hour, jn>>

Next == Call \/ Journey

Spec == Init /\ [][Next]_vars

\* ---------------------------------------------------------------- __main__
\* json.dump(self.logs, f): the array of the entries' objects, in buffer order
JsonObject(e) == e
\* a slip: the last entry left out
DumpDropsLast(buffer) == [n \in 1..(Len(buffer) - 1) |-> JsonObject(buffer[n])]

Dump(buffer) == [n \in 1..Len(buffer) |-> JsonObject(buffer[n])]

\* save_logs, lines 33-36
save_logs ==
    /\ file' = Dump(logs)
    /\ written' = written + 1
    /\ UNCHANGED <<logs, users, products, current_time, rng, hour, jn, calls,
                   load, user, actions, count, i, faulty, base, draw, incs, arg_start, clock0>>

\* line 147
LoadFor(h) ==
    IF 18 <= h /\ h < 20 THEN <<2, 1>> ELSE IF h < 6 THEN <<1, 2>> ELSE <<1, 1>>

\* line 146: today at h:00:00
StartOf(h) == h * TicksPerHour

\* lines 145-149: one more journey of the current hour
MainCall ==
    /\ pc = "idle"
    /\ hour < HoursPerDay
    /\ jn < JourneysPerHour
    /\ BeginJourney(LoadFor(hour), <<StartOf(hour)>>)
    /\ jn' = jn + 1
    /\ UNCHANGED <<hour, calls>>

\* line 145: the next hour
MainNextHour ==
    /\ pc = "idle"
    /\ hour < HoursPerDay
    /\ jn >= JourneysPerHour
    /\ hour' = hour + 1
    /\ jn' = 0
    /\ UNCHANGED <<logs, users, products, current_time, rng, file, written, pc,
                   calls, load, user, actions, count, i, faulty, base, draw, incs, arg_start, clock0>>

\* line 150
MainSave ==
    /\ pc = "idle"
    /\ hour >= HoursPerDay
    /\ save_logs
    /\ pc' = "done"

InitRun ==
    \E seed \in Seeds, now \in InitClocks : InitApp(seed, now, {})

NextRun == MainCall \/ MainNextHour \/ MainSave \/ Journey

SpecRun == InitRun /\ [][NextRun]_vars

\* ================================================================= claims
\* the events appended by the call under way, or by the last call once returned
JEvents == SubSeq(logs, base + 1, Len(logs))
\* a call of simulate_user_journey has returned
Returned == pc \in {"idle", "done"} /\ Len(logs) > base
Names(seq) == {seq[k] : k \in 1..Len(seq)}
Night(h) == h >= 22 \/ h < 6

\* C1: a returned journey starts with login, ends with logout, and holds
\* exactly int(d * load_factor) events strictly between them, d being the
\* randint(5,15) draw: 5..15 events at load 1.0, 10..30 at load 2.0.
C1_JourneyShape ==
    Returned =>
        LET ev == JEvents
            n == Len(ev) - 2
        IN  /\ draw \in 5..15
            /\ ev[1].event_type = "login"
            /\ ev[Len(ev)].event_type = "logout"
            /\ n * load[2] <= draw * load[1]
            /\ draw * load[1] < (n + 1) * load[2]
            /\ (load = <<1, 1>> => n \in 5..15)
            /\ (load = <<2, 1>> => n \in 10..30)

\* a journey at load 0.5 whose draw 15 gave int(7.5) = 7 actions
C1_Witness ==
    Returned /\ load = <<1, 2>> /\ draw = 15 /\ Len(JEvents) = 9

\* C2: the mix computed after login holds only error, search and logout at
\* night (hours 22, 23, 0..5), holds purchase only in hours 18..21, and the
\* four half-open bands each give their own mix, one band per hour.
C2_ActionMix ==
    actions # <<>> =>
        LET h == Hour(logs[base + 1].timestamp)
            a == Names(actions)
        IN  /\ h \in 0..23
            /\ (Night(h) => a \subseteq {"error", "search", "logout"})
            /\ ("purchase" \in a => (18 <= h /\ h < 22))
            /\ ((6 <= h /\ h < 12) <=> a = {"search", "page_view", "product_view"})
            /\ ((12 <= h /\ h < 18) <=> a = {"page_view", "product_view", "add_to_cart"})
            /\ ((18 <= h /\ h < 22) <=> a = {"product_view", "add_to_cart", "purchase"})
            /\ (Night(h) <=> a = {"error", "search", "logout"})

\* the mix of a journey started at 22:00, the first night hour
C2_Witness ==
    /\ actions # <<>>
    /\ Hour(logs[base + 1].timestamp) = 22
    /\ "logout" \in Names(actions)

\* C3: every purchase event lists 1 to 3 items with pairwise distinct
\* product_ids, each a product of the pool at its price, and its amount is
\* the sum of the listed prices rounded to whole cents (which, the prices
\* being whole cents, is that sum).
C3_Purchases ==
    \A k \in 1..Len(logs) :
        logs[k].event_type = "purchase" =>
            LET d == logs[k].data
                n == Len(d.items)
                total == SumSeq([m \in 1..n |-> d.items[m].price])
            IN  /\ n \in 1..3
                /\ \A a, b \in 1..n :
                       a # b => d.items[a].product_id # d.items[b].product_id
                /\ \A a \in 1..n : \E p \in 1..Len(products) :
                       /\ products[p].product_id = d.items[a].product_id
                       /\ products[p].price = d.items[a].price
                /\ d.amount % 10 = 0
                /\ d.amount = total

\* a purchase of the items priced 12.50 and 99.99, amount 112.49
C3_Witness ==
    \E k \in 1..Len(logs) :
        /\ logs[k].event_type = "purchase"
        /\ Len(logs[k].data.items) = 2
        /\ {logs[k].data.items[1].price, logs[k].data.items[2].price} = {12500, 99990}
        /\ logs[k].data.amount = 112490

\* C4: an emitter that raises does not end the journey: iteration n of a
\* journey whose emitter raised appended exactly one error event with
\* error_code 0 and the failure's text, stamped like any action, the clock
\* was advanced after it, the following iterations ran, and the journey
\* returned after count actions and the final logout.
C4_FaultContained ==
    LET ev == JEvents
    IN  /\ \A n \in faulty :
              (n <= count /\ Len(ev) >= n + 1) =>
                  /\ ev[n + 1] = Entry(ev[n + 1].timestamp, "error", user,
                                       [error_code |-> 0, error_message |-> InjectedError])
                  /\ (Len(ev) >= n + 2 =>
                        /\ Len(incs) >= n
                        /\ incs[n] > 0
                        /\ ev[n + 2].timestamp = ev[n + 1].timestamp + incs[n])
        /\ (pc = "loop" => Len(ev) = i + 1 /\ Len(incs) = i)
        /\ (pc = "advance" => Len(ev) = i + 2 /\ Len(incs) = i)
        /\ (Returned =>
              /\ Len(ev) = count + 2
              /\ Len(incs) = count
              /\ ev[Len(ev)].event_type = "logout")

\* a returned journey whose first two emitters raised and whose third did not
C4_Witness ==
    /\ Returned
    /\ faulty = {1, 2}
    /\ count >= 3
    /\ JEvents[2].event_type = "error"
    /\ JEvents[3].event_type = "error"
    /\ "user_id" \in DOMAIN JEvents[4].data
    /\ JEvents[Len(JEvents)].event_type = "logout"

\* C5: every event of the buffer carries the user_id of a user of the pool,
\* with that user's geo and device_type, and every event a call appends
\* (login, actions, converted errors, logout) carries those of the one user
\* picked at the start of the call.
C5_UserIdentity ==
    /\ LET pool == {<<users[u].user_id, users[u].geo, users[u].device_type>> :
                        u \in 1..Len(users)}
       IN  \A k \in 1..Len(logs) :
               <<logs[k].user_id, logs[k].geo, logs[k].device_type>> \in pool
    /\ \A k \in 1..Len(JEvents) :
          /\ JEvents[k].user_id = user.user_id
          /\ JEvents[k].geo = user.geo
          /\ JEvents[k].device_type = user.device_type
    /\ (Len(JEvents) > 0 => \E u \in 1..Len(users) : users[u] = user)

\* two returned journeys of different users, the second with a converted error
C5_Witness ==
    /\ Returned
    /\ calls = 2
    /\ base > 0
    /\ logs[1].user_id # user.user_id
    /\ 1 \in faulty
    /\ count >= 1
    /\ JEvents[2].data = [error_code |-> 0, error_message |-> InjectedError]

\* the state part of C6
C6_State ==
    /\ written \in {0, 1}
    /\ (written = 0 => file = <<>>)
    /\ (written = 1 <=> pc = "done")
    /\ (written = 1 =>
          /\ hour = 24
          /\ Cardinality({k \in 1..Len(logs) : logs[k].event_type = "login"}) = 24 * 5
          /\ Returned
          /\ Len(file) = Len(logs)
          /\ \A k \in 1..Len(logs) : file[k] = logs[k])

\* C6: in the run the output file is written once, after the 24 x 5 journeys
\* have returned; what is written is the buffer, entry by entry, in order;
\* nothing is persisted before; and the write leaves the buffer unchanged.
C6_SavedOnce ==
    /\ []C6_State
    /\ [][written' # written =>
            /\ logs' = logs
            /\ written = 0
            /\ pc = "idle"
            /\ hour = 24]_vars

\* the run has ended: the file holds the buffer of 120 journeys
C6_Witness ==
    pc = "done" /\ written = 1 /\ Len(file) = Len(logs) /\ Len(logs) >= 24 * 5 * 4

\* C7: within a call the timestamps never decrease; the login is stamped
\* with start_time when given and with the clock as the previous operation
\* left it when not; each iteration stamps its event and then advances the
\* clock once, by 30/load_factor to 120/load_factor seconds; the logout is
\* stamped with the login's timestamp plus the sum of the increments.
C7_Clock ==
    LET ev == JEvents
    IN  /\ (Len(ev) >= 1 =>
              /\ ev[1].timestamp = (IF arg_start = <<>> THEN clock0 ELSE arg_start[1])
              /\ current_time = ev[1].timestamp + SumSeq(incs))
        /\ \A k \in 1..(Len(ev) - 1) : ev[k].timestamp <= ev[k + 1].timestamp
        /\ \A k \in 1..Len(incs) :
              /\ 30 * TicksPerSec * load[2] <= incs[k] * load[1]
              /\ incs[k] * load[1] <= 120 * TicksPerSec * load[2]
              /\ Len(ev) >= k + 1
              /\ (k = 1 => ev[k + 1].timestamp = ev[1].timestamp)
              /\ (Len(ev) >= k + 2 => ev[k + 2].timestamp = ev[k + 1].timestamp + incs[k])
        /\ (Returned =>
              /\ Len(incs) = Len(ev) - 2
              /\ ev[Len(ev)].timestamp = ev[1].timestamp + SumSeq(incs))

\* a first call without start_time, stamped from the constructor's clock, then
\* a call with start_time 19:00 earlier than the buffer's last timestamp
C7_Witness ==
    /\ Returned
    /\ calls = 2
    /\ count > 0
    /\ logs[1].timestamp \in InitClocks
    /\ arg_start = <<19 * TicksPerHour>>
    /\ logs[base + 1].timestamp < logs[base].timestamp

\* C8: a step that calls an emitter (the login, an action or its handler, the
\* logout) appends one entry at the end of the buffer and leaves the earlier
\* entries, the pools, the clock and the file alone; no step ever removes or
\* changes an entry.
C8_EmitterFrame ==
    [][/\ Len(logs') >= Len(logs)
       /\ SubSeq(logs', 1, Len(logs)) = logs
       /\ (pc \in {"login", "loop"} =>
             /\ Len(logs') = Len(logs) + 1
             /\ users' = users
             /\ products' = products
             /\ current_time' = current_time
             /\ file' = file
             /\ written' = written)]_vars

\* a purchase, which reads the product pool, has just been appended
C8_Witness ==
    /\ pc = "advance"
    /\ Len(logs) >= 3
    /\ logs[Len(logs)].event_type = "purchase"

\* C9 as stated: the final logout is the only logout a call appends
C9_OnlyFinalLogout ==
    Returned =>
        /\ JEvents[Len(JEvents)].event_type = "logout"
        /\ \A k \in 2..(Len(JEvents) - 1) : JEvents[k].event_type # "logout"

\* C9, amended: the last event a call appends is a logout, and when the clock
\* hour at the login is in 6..21 no event before it is one; in the night
\* hours the mix holds logout and the claim is limited to the last event.
C9_LogoutLast ==
    LET ev == JEvents
    IN  /\ (Returned => ev[Len(ev)].event_type = "logout")
        /\ (Len(ev) >= 1 /\ ~Night(Hour(ev[1].timestamp)) =>
              \A k \in 1..(Len(ev) - 1) : ev[k].event_type # "logout")

\* a returned afternoon journey
C9_Witness ==
    /\ Returned
    /\ Hour(JEvents[1].timestamp) = 12
    /\ count >= 5
    /\ JEvents[Len(JEvents)].event_type = "logout"

\* C10: in the run every event of a journey, its logout included, is stamped
\* within the hour the journey started in, so every action event belongs to
\* the mix of its own timestamp's hour (a purchase to hours 18..21).
C10_SameHour ==
    LET ev == JEvents
    IN  Len(ev) >= 1 =>
          /\ arg_start # <<>>
          /\ arg_start[1] % TicksPerHour = 0
          /\ load = (IF Hour(arg_start[1]) \in 18..19 THEN <<2, 1>>
                     ELSE IF Hour(arg_start[1]) < 6 THEN <<1, 2>> ELSE <<1, 1>>)
          /\ \A k \in 1..Len(ev) :
                /\ arg_start[1] <= ev[k].timestamp
                /\ ev[k].timestamp < arg_start[1] + TicksPerHour
                /\ Hour(ev[k].timestamp) = Hour(arg_start[1])
                /\ (ev[k].event_type = "purchase" => Hour(ev[k].timestamp) \in 18..21)
                /\ (k >= 2 /\ k <= count + 1 =>
                      ev[k].event_type \in Names(time_based_actions(ev[k].timestamp)))

\* the longest journey: 30 actions at load 2.0, each 60 s apart, ends at 19:30
C10_Witness ==
    /\ Returned
    /\ arg_start = <<19 * TicksPerHour>>
    /\ Len(JEvents) = 32
    /\ JEvents[32].timestamp = 19 * TicksPerHour + 1800 * TicksPerSec

====
